---------------------------- MODULE Spec2Model ----------------------------
(***************************************************************************)
(* Resource provider OC::Organizations::PasswordPolicy (src/handlers.ts).  *)
(*                                                                         *)
(* The module models the PasswordPolicy model class (parseBoolean,         *)
(* parseInteger, fromObject, toObject), the two helpers                    *)
(* retrievePasswordPolicy and upsertPasswordPolicy, and the five handlers  *)
(* of class Resource.  A handler invocation is a process that is suspended *)
(* at every awaited remote call; the account's password policy is the      *)
(* shared remote state.  Spec runs one invocation at a time, SpecConc two  *)
(* that interleave, SpecModel the model class alone.  SpecRepeat is Spec   *)
(* with a host that repeats an invocation or reads back what it wrote,     *)
(* SpecLive a sequential host whose remote calls always answer.            *)
(***************************************************************************)
EXTENDS Integers, Sequences, FiniteSets, TLC

(***************************************************************************)
(* Bounds of the model.                                                    *)
(***************************************************************************)
\* number of distinct tokens uuidv4() may return
MaxUuid == 2

(***************************************************************************)
(* JavaScript values.  A string is a sequence of one-character strings, so *)
(* that parsing is computed character by character.                        *)
(***************************************************************************)
Absent == [t |-> "absent"]            \* undefined, null or a missing key
Str(s) == [t |-> "str", s |-> s]
Num(n) == [t |-> "num", n |-> n]
Bool(b) == [t |-> "bool", b |-> b]
NaN == [t |-> "nan"]                  \* typeof NaN === 'number'
JsNull == [t |-> "null"]              \* the value of JSON.parse("null")
Thrown(e) == [t |-> "throw", e |-> e] \* the evaluation threw e

DigitChars == <<"0", "1", "2", "3", "4", "5", "6", "7", "8", "9">>
UpperChars == <<"A", "B", "C", "D", "E", "F", "G", "H", "I", "J", "K", "L", "M",
                "N", "O", "P", "Q", "R", "S", "T", "U", "V", "W", "X", "Y", "Z">>
LowerChars == <<"a", "b", "c", "d", "e", "f", "g", "h", "i", "j", "k", "l", "m",
                "n", "o", "p", "q", "r", "s", "t", "u", "v", "w", "x", "y", "z">>

IsDigit(c) == \E i \in 1..10 : DigitChars[i] = c
DigitVal(c) == (CHOOSE i \in 1..10 : DigitChars[i] = c) - 1

\* String.prototype.toLowerCase, one character
LowerChar(c) ==
    IF \E i \in 1..26 : UpperChars[i] = c
    THEN LowerChars[CHOOSE i \in 1..26 : UpperChars[i] = c]
    ELSE c
toLowerCase(cs) == [i \in 1..Len(cs) |-> LowerChar(cs[i])]

\* the decimal numeral of a natural number, and String(n) of an integer
RECURSIVE NatToChars(_)
NatToChars(n) ==
    IF n < 10 THEN <<DigitChars[n + 1]>>
    ELSE NatToChars(n \div 10) \o <<DigitChars[(n % 10) + 1]>>
IntToChars(n) == IF n < 0 THEN <<"-">> \o NatToChars(-n) ELSE NatToChars(n)

\* the value of a sequence of digits read in base 10
RECURSIVE DigitsValue(_)
DigitsValue(cs) ==
    IF cs = <<>> THEN 0
    ELSE 10 * DigitsValue(SubSeq(cs, 1, Len(cs) - 1)) + DigitVal(cs[Len(cs)])

\* the longest prefix of cs made of digits
RECURSIVE DigitPrefix(_)
DigitPrefix(cs) ==
    IF cs = <<>> \/ ~IsDigit(cs[1]) THEN <<>>
    ELSE <<cs[1]>> \o DigitPrefix(Tail(cs))

RECURSIVE SkipSpaces(_)
SkipSpaces(cs) ==
    IF cs # <<>> /\ cs[1] = " " THEN SkipSpaces(Tail(cs)) ELSE cs

\* String(value)
StringOf(v) ==
    CASE v.t = "str" -> v.s
      [] v.t = "bool" -> IF v.b THEN <<"t", "r", "u", "e">>
                         ELSE <<"f", "a", "l", "s", "e">>
      [] v.t = "num" -> IntToChars(v.n)
      [] v.t = "nan" -> <<"N", "a", "N">>
      [] OTHER -> <<"n", "u", "l", "l">>

\* !!value
Truthy(v) ==
    CASE v.t = "str" -> v.s # <<>>
      [] v.t = "bool" -> v.b
      [] v.t = "num" -> v.n # 0
      [] OTHER -> FALSE

\* a || b
OrElse(a, b) == IF Truthy(a) THEN a ELSE b

\* JSON's integer numerals: -?(0|[1-9][0-9]*)
IsJsonInt(cs) ==
    LET body == IF cs # <<>> /\ cs[1] = "-" THEN Tail(cs) ELSE cs
    IN  /\ body # <<>>
        /\ \A i \in 1..Len(body) : IsDigit(body[i])
        /\ (Len(body) > 1 => body[1] # "0")

\* JSON.parse of a text holding one scalar: the literals true, false and
\* null and the integer numerals; every other text drawn by the model
\* (no text holds white space, a fraction, an exponent, a quoted string,
\* an array or an object) is a SyntaxError.
JSONparse(cs) ==
    CASE cs = <<"t", "r", "u", "e">> -> Bool(TRUE)
      [] cs = <<"f", "a", "l", "s", "e">> -> Bool(FALSE)
      [] cs = <<"n", "u", "l", "l">> -> JsNull
      [] IsJsonInt(cs) ->
            IF cs[1] = "-" THEN Num(-DigitsValue(Tail(cs)))
            ELSE Num(DigitsValue(cs))
      [] OTHER -> Thrown("SyntaxError")

\* Number.parseInt(cs, 10)
NumberParseInt(cs) ==
    LET s0 == SkipSpaces(cs)
        neg == s0 # <<>> /\ s0[1] = "-"
        s1 == IF s0 # <<>> /\ s0[1] \in {"-", "+"} THEN Tail(s0) ELSE s0
        ds == DigitPrefix(s1)
    IN  IF ds = <<>> THEN NaN
        ELSE Num(IF neg THEN -DigitsValue(ds) ELSE DigitsValue(ds))

(***************************************************************************)
(* class PasswordPolicy                                                    *)
(***************************************************************************)
TYPE_NAME == "OC::Organizations::PasswordPolicy"

IntegerFields == {"MinimumPasswordLength", "MaxPasswordAge", "PasswordReusePrevention"}
BooleanFields == {"RequireSymbols", "RequireNumbers", "RequireUppercaseCharacters",
                  "RequireLowercaseCharacters", "AllowUsersToChangePassword",
                  "HardExpiry"}
\* the properties that carry a @jsonMember decorator
Members == {"ResourceId"} \cup IntegerFields \cup BooleanFields
\* ExpirePasswords is declared without a decorator
AllFields == Members \cup {"ExpirePasswords"}

\* an object with no property set
EmptyObject == [f \in AllFields |-> Absent]

parseBoolean(value) ==
    IF value # Absent
    THEN LET parsed == JSONparse(toLowerCase(StringOf(value)))
         IN  IF parsed.t = "throw" THEN parsed ELSE Bool(Truthy(parsed))
    ELSE Absent

parseInteger(value) ==
    IF Truthy(value) /\ value.t = "str"
    THEN NumberParseInt(value.s)
    ELSE Absent

\* the deserializer that @jsonMember names for a member
Deserialize(f, value) ==
    CASE f \in IntegerFields -> parseInteger(value)
      [] f \in BooleanFields -> parseBoolean(value)
      [] OTHER -> value

\* what fromObject returns when the parse failed
Undefined == [undefined |-> TRUE]

\* PasswordPolicy.fromObject: TypedJSON.parse with the default settings.
\* Every member goes through its deserializer, a member whose deserializer
\* yields undefined stays unset, an undecorated property is not read.  What
\* a deserializer throws is caught by TypedJSON.parse and handed to its
\* errorHandler, which by default logs it; parse then returns undefined.
fromObject(input) ==
    IF \E f \in Members : Deserialize(f, input[f]).t = "throw"
    THEN Undefined
    ELSE [f \in AllFields |->
             IF f \in Members THEN Deserialize(f, input[f]) ELSE Absent]

\* PasswordPolicy.toObject: the plain object of the members that are set
toObject(m) ==
    LET keys == {f \in Members : m[f] # Absent}
    IN  [f \in keys |-> m[f]]

\* delete params[key]
DeleteKey(params, key) == [f \in (DOMAIN params) \ {key} |-> params[f]]

(***************************************************************************)
(* Errors                                                                  *)
(***************************************************************************)
AWSError(code, message) == [kind |-> "AWSError", code |-> code, message |-> message]
NotFound(typeName, identifier) ==
    [kind |-> "NotFound", typeName |-> typeName, identifier |-> identifier]
InternalFailure(message) == [kind |-> "InternalFailure", message |-> message]
\* the TypeError of reading or setting a property of undefined
TypeError(property) ==
    [kind |-> "TypeError", property |-> property,
     message |-> "Cannot read property of undefined"]

\* the failures of a remote call that do not depend on the policy
TransportErrors == {AWSError("Throttling", "Rate exceeded"),
                    AWSError("NetworkingError", "socket hang up")}
NoSuchEntity == AWSError("NoSuchEntity", "The account policy cannot be found")
ValidationError == AWSError("ValidationError", "Invalid parameter value")

(***************************************************************************)
(* The account password policy API (IAM).  The account either has no       *)
(* custom policy or holds one value for every policy field.                *)
(***************************************************************************)
PolicyFields == IntegerFields \cup BooleanFields
NoPolicy == [exists |-> FALSE]
Policy(fields) == [exists |-> TRUE, fields |-> fields]

\* the value the API applies to a field that a write request leaves out
RemoteDefault(f) ==
    CASE f = "MinimumPasswordLength" -> Num(6)
      [] f = "MaxPasswordAge" -> Num(0)
      [] f = "PasswordReusePrevention" -> Absent
      [] OTHER -> Bool(FALSE)

\* the API accepts a request whose integer parameters are integers
ValidParams(params) ==
    \A f \in DOMAIN params : f \in IntegerFields => params[f].t = "num"

\* the policy an accepted write request leaves: full replacement
Replaced(params) ==
    Policy([f \in PolicyFields |->
                IF f \in DOMAIN params THEN params[f] ELSE RemoteDefault(f)])

\* response.PasswordPolicy of a read: the stored fields and the derived
\* ExpirePasswords
ReadResponse(r) ==
    [f \in AllFields |->
        CASE f \in PolicyFields -> r.fields[f]
          [] f = "ExpirePasswords" -> Bool(Truthy(r.fields["MaxPasswordAge"]))
          [] OTHER -> Absent]

Ok(response) == [ok |-> TRUE, response |-> response]
Fail(error) == [ok |-> FALSE, error |-> error]

\* the possible results of each remote call in state r of the account
GetAccountPasswordPolicy(r) ==
    (IF r.exists THEN {Ok(ReadResponse(r))} ELSE {Fail(NoSuchEntity)})
        \cup {Fail(e) : e \in TransportErrors}
UpdateAccountPasswordPolicy(r, params) ==
    (IF ValidParams(params) THEN {Ok(Replaced(params))} ELSE {Fail(ValidationError)})
        \cup {Fail(e) : e \in TransportErrors}
DeleteAccountPasswordPolicy(r) ==
    (IF r.exists THEN {Ok(NoPolicy)} ELSE {Fail(NoSuchEntity)})
        \cup {Fail(e) : e \in TransportErrors}

\* the state of the account after a call with result res
RemoteAfter(r, api, res) ==
    IF res.ok /\ api \in {"updateAccountPasswordPolicy", "deleteAccountPasswordPolicy"}
    THEN res.response ELSE r

(***************************************************************************)
(* The helpers, as functions of the result of their remote call            *)
(***************************************************************************)
\* uuidv4(): some token out of a set of non-empty strings
Uuids == {<<"u", DigitChars[i + 1]>> : i \in 1..MaxUuid}

\* Variants of retrievePasswordPolicy with a fault seeded: one that recovers
\* from "no such entity" with an empty model, one whose NotFound always
\* carries the logical identifier, one that wraps every other failure.
retrieveRecovering(res, resourceId, logicalResourceId) ==
    IF res.ok
    THEN IF fromObject(res.response) = Undefined
         THEN [ok |-> FALSE, error |-> TypeError("ResourceId")]
         ELSE [ok |-> TRUE,
               model |-> [fromObject(res.response) EXCEPT
                             !["ResourceId"] = OrElse(resourceId, logicalResourceId)]]
    ELSE IF res.error.code = "NoSuchEntity"
         THEN [ok |-> TRUE, model |-> EmptyObject]
         ELSE [ok |-> FALSE, error |-> res.error]
retrieveLogicalOnly(res, resourceId, logicalResourceId) ==
    IF res.ok
    THEN IF fromObject(res.response) = Undefined
         THEN [ok |-> FALSE, error |-> TypeError("ResourceId")]
         ELSE [ok |-> TRUE,
               model |-> [fromObject(res.response) EXCEPT
                             !["ResourceId"] = OrElse(resourceId, logicalResourceId)]]
    ELSE IF res.error.code = "NoSuchEntity"
         THEN [ok |-> FALSE, error |-> NotFound(TYPE_NAME, logicalResourceId)]
         ELSE [ok |-> FALSE, error |-> res.error]
retrieveWrapping(res, resourceId, logicalResourceId) ==
    IF res.ok
    THEN IF fromObject(res.response) = Undefined
         THEN [ok |-> FALSE, error |-> TypeError("ResourceId")]
         ELSE [ok |-> TRUE,
               model |-> [fromObject(res.response) EXCEPT
                             !["ResourceId"] = OrElse(resourceId, logicalResourceId)]]
    ELSE IF res.error.code = "NoSuchEntity"
         THEN [ok |-> FALSE,
               error |-> NotFound(TYPE_NAME, OrElse(resourceId, logicalResourceId))]
         ELSE [ok |-> FALSE, error |-> InternalFailure(res.error.message)]

\* Variant of retrievePasswordPolicy with a fault seeded: the model is
\* returned as parsed, without the ResourceId stamped on it.
retrieveUnstamped(res, resourceId, logicalResourceId) ==
    IF res.ok
    THEN IF fromObject(res.response) = Undefined
         THEN [ok |-> FALSE, error |-> TypeError("ResourceId")]
         ELSE [ok |-> TRUE, model |-> fromObject(res.response)]
    ELSE IF res.error.code = "NoSuchEntity"
         THEN [ok |-> FALSE,
               error |-> NotFound(TYPE_NAME, OrElse(resourceId, logicalResourceId))]
         ELSE [ok |-> FALSE, error |-> res.error]

\* retrievePasswordPolicy with a session, once getAccountPasswordPolicy
\* has answered res
retrievePasswordPolicy(res, resourceId, logicalResourceId) ==
    IF res.ok
    THEN IF fromObject(res.response) = Undefined
         THEN [ok |-> FALSE, error |-> TypeError("ResourceId")]
         ELSE [ok |-> TRUE,
               model |-> [fromObject(res.response) EXCEPT
                             !["ResourceId"] = OrElse(resourceId, logicalResourceId)]]
    ELSE IF res.error.code = "NoSuchEntity"
         THEN [ok |-> FALSE,
               error |-> NotFound(TYPE_NAME, OrElse(resourceId, logicalResourceId))]
         ELSE [ok |-> FALSE, error |-> res.error]

\* Variant of UpsertParams with a fault seeded: ResourceId is not deleted.
UpsertParamsKeepingId(m) == toObject(m)

\* the request upsertPasswordPolicy sends for a model
UpsertParams(m) == DeleteKey(toObject(m), "ResourceId")

\* Variant of upsertBegin with a fault seeded: a model without ResourceId is
\* given one before the session is looked at.
upsertBeginAssigning(s, m) ==
    IF ~s
    THEN [kind |-> "return",
          model |-> IF m # Undefined /\ ~Truthy(m["ResourceId"])
                    THEN [m EXCEPT !["ResourceId"] = Str(<<"u", "1">>)]
                    ELSE m]
    ELSE IF m = Undefined
         THEN [kind |-> "throw",
               error |-> InternalFailure(TypeError("toObject").message)]
         ELSE [kind |-> "call", params |-> DeleteKey(toObject(m), "ResourceId")]

\* upsertPasswordPolicy up to its await: without a session it returns the
\* model as it is; with one it sends the request, unless the model is
\* undefined, whose TypeError the catch wraps
upsertBegin(s, m) ==
    IF ~s THEN [kind |-> "return", model |-> m]
    ELSE IF m = Undefined
         THEN [kind |-> "throw",
               error |-> InternalFailure(TypeError("toObject").message)]
         ELSE [kind |-> "call", params |-> UpsertParams(m)]

\* Variant of upsertPasswordPolicy with a fault seeded: a successful write
\* assigns a new ResourceId whatever the model holds.
upsertAlwaysAssigning(res, m, uuid) ==
    IF res.ok
    THEN [ok |-> TRUE, model |-> [m EXCEPT !["ResourceId"] = Str(uuid)]]
    ELSE [ok |-> FALSE, error |-> InternalFailure(res.error.message)]

\* Variant of upsertPasswordPolicy with a fault seeded: the error of the
\* remote call is rethrown as it is.
upsertRethrowing(res, m, uuid) ==
    IF res.ok
    THEN [ok |-> TRUE,
          model |-> IF ~Truthy(m["ResourceId"])
                    THEN [m EXCEPT !["ResourceId"] = Str(uuid)]
                    ELSE m]
    ELSE [ok |-> FALSE, error |-> res.error]

\* upsertPasswordPolicy with a session, once updateAccountPasswordPolicy
\* has answered res; uuid is what uuidv4() returns if it is called
upsertPasswordPolicy(res, m, uuid) ==
    IF res.ok
    THEN [ok |-> TRUE,
          model |-> IF ~Truthy(m["ResourceId"])
                    THEN [m EXCEPT !["ResourceId"] = Str(uuid)]
                    ELSE m]
    ELSE [ok |-> FALSE, error |-> InternalFailure(res.error.message)]

(***************************************************************************)
(* Handler invocations                                                     *)
(***************************************************************************)
VARIABLES
    remote,     \* the account's password policy
    pc,         \* per invocation: "idle", the remote call awaited, or "done"
    op,         \* the handler invoked
    session,    \* session instanceof SessionProxy
    request,    \* the ResourceHandlerRequest
    model,      \* the handler's local variable model
    progress,   \* the handler's ProgressEvent
    pending,    \* the remote call the invocation is awaiting
    calls,      \* the remote calls the invocation has completed, in order
    outcome,    \* what the invocation returned or threw
    before,     \* the account's policy when the invocation began
    prev,       \* how the invocation ended the first time, when it is repeated
    gone        \* a Delete has succeeded and no Create has since

vars == <<remote, pc, op, session, request, model, progress, pending, calls,
          outcome, before, prev, gone>>

\* the invocation slots; the host of Spec runs its invocations in slot Host
Procs == {"h1", "h2"}
Host == "h1"

GET == "getAccountPasswordPolicy"
UPDATE == "updateAccountPasswordPolicy"
DELETE == "deleteAccountPasswordPolicy"

Unset == [unset |-> TRUE]             \* a property that was never assigned
NullModel == [null |-> TRUE]          \* let model = null
Models(list) == [list |-> list]
Progress(status, resourceModel, resourceModels) ==
    [status |-> status, resourceModel |-> resourceModel,
     resourceModels |-> resourceModels]
NoProgress == Progress("none", Unset, Unset)

NoParams == [f \in {} |-> Absent]
NoCall == [api |-> "none", params |-> NoParams]
Call(api, params) == [api |-> api, params |-> params]
Done(call, res, r) ==
    [api |-> call.api, params |-> call.params, result |-> res, before |-> r]

NoOutcome == [kind |-> "none"]
Returned(prog) == [kind |-> "returned", progress |-> prog]
Threw(error) == [kind |-> "thrown", error |-> error]

NoRequest == [desiredResourceState |-> EmptyObject,
              logicalResourceIdentifier |-> Absent]

NoPrev == [kind |-> "none"]

(***************************************************************************)
(* The requests the host sends.                                            *)
(***************************************************************************)
RawResourceIds == {Absent, Str(<<>>), Str(<<"r", "1">>)}
RawMinimumPasswordLengths ==
    {Absent, Str(<<"8">>), Str(<<"a", "b", "c">>), Str(<<>>), Num(8)}
RawRequireSymbols ==
    {Absent, Str(<<"t", "r", "u", "e">>), Str(<<"F", "A", "L", "S", "E">>),
     Bool(TRUE), Str(<<"y", "e", "s">>)}
RawMaxPasswordAges == {Absent, Str(<<"9", "0">>)}
RawExpirePasswords == {Absent, Bool(TRUE)}

DesiredStates ==
    {[EmptyObject EXCEPT !["ResourceId"] = rid,
                         !["MinimumPasswordLength"] = len,
                         !["RequireSymbols"] = sym,
                         !["MaxPasswordAge"] = age,
                         !["ExpirePasswords"] = exp] :
        rid \in RawResourceIds, len \in RawMinimumPasswordLengths,
        sym \in RawRequireSymbols, age \in RawMaxPasswordAges,
        exp \in RawExpirePasswords}

LogicalIds == {Str(<<"L", "1">>)}

Requests ==
    {[desiredResourceState |-> d, logicalResourceIdentifier |-> l] :
        d \in DesiredStates, l \in LogicalIds}

Init ==
    /\ remote = NoPolicy
    /\ pc = [p \in Procs |-> "idle"]
    /\ op = [p \in Procs |-> "none"]
    /\ session = [p \in Procs |-> FALSE]
    /\ request = [p \in Procs |-> NoRequest]
    /\ model = [p \in Procs |-> NullModel]
    /\ progress = [p \in Procs |-> NoProgress]
    /\ pending = [p \in Procs |-> NoCall]
    /\ calls = [p \in Procs |-> <<>>]
    /\ outcome = [p \in Procs |-> NoOutcome]
    /\ before = [p \in Procs |-> NoPolicy]
    /\ prev = [p \in Procs |-> NoPrev]
    /\ gone = FALSE

(***************************************************************************)
(* The ways a step of a handler ends.                                      *)
(***************************************************************************)
\* the host invokes handler o in slot p; a host that repeats an invocation
\* invokes the same handler with the same session and request
Invoke(p, o, s, req) ==
    /\ \/ pc[p] = "idle"
       \/ pc[p] = "again" /\ o = op[p] /\ s = session[p] /\ req = request[p]
    /\ op' = [op EXCEPT ![p] = o]
    /\ session' = [session EXCEPT ![p] = s]
    /\ request' = [request EXCEPT ![p] = req]
    /\ calls' = [calls EXCEPT ![p] = <<>>]
    /\ before' = [before EXCEPT ![p] = remote]
    /\ UNCHANGED <<remote, prev>>

\* the handler returns prog
Return(p, prog) ==
    /\ pc' = [pc EXCEPT ![p] = "done"]
    /\ progress' = [progress EXCEPT ![p] = prog]
    /\ pending' = [pending EXCEPT ![p] = NoCall]
    /\ outcome' = [outcome EXCEPT ![p] = Returned(prog)]
    /\ gone' = IF session'[p] /\ prog.status = "SUCCESS"
                       /\ op'[p] \in {"Create", "Delete"}
                  THEN op'[p] = "Delete"
                  ELSE gone

\* the handler throws error, its ProgressEvent being prog
Throw(p, error, prog) ==
    /\ pc' = [pc EXCEPT ![p] = "done"]
    /\ progress' = [progress EXCEPT ![p] = prog]
    /\ pending' = [pending EXCEPT ![p] = NoCall]
    /\ outcome' = [outcome EXCEPT ![p] = Threw(error)]
    /\ UNCHANGED gone

\* the handler awaits the remote call api(params)
Await(p, api, params, prog) ==
    /\ pc' = [pc EXCEPT ![p] = api]
    /\ progress' = [progress EXCEPT ![p] = prog]
    /\ pending' = [pending EXCEPT ![p] = Call(api, params)]
    /\ outcome' = [outcome EXCEPT ![p] = NoOutcome]
    /\ UNCHANGED gone

\* the awaited call of p answers res
Answer(p, res) ==
    /\ remote' = RemoteAfter(remote, pending[p].api, res)
    /\ calls' = [calls EXCEPT ![p] = Append(@, Done(pending[p], res, remote))]
    /\ UNCHANGED <<op, session, request, before, prev>>

\* Variant of Succeeded with a fault seeded: the status is left as it is.
StatusKept(prog) == prog

\* progress.status = OperationStatus.Success
Succeeded(prog) == [prog EXCEPT !.status = "SUCCESS"]

(***************************************************************************)
(* class Resource: the five handlers.  Each action runs a handler from     *)
(* its entry, or from the answer of the call it awaits, to its next await, *)
(* return or throw.                                                        *)
(***************************************************************************)
\* Variant of create with a fault seeded: Create looks for the policy, as
\* Update does, before it writes.
createReadingFirst(p, s, req) ==
    /\ Invoke(p, "Create", s, req)
    /\ LET m == fromObject(req.desiredResourceState)
           prog == Progress("IN_PROGRESS", m, Unset)
       IN  /\ model' = [model EXCEPT ![p] = m]
           /\ IF s /\ m # Undefined
              THEN Await(p, GET, NoParams, prog)
              ELSE Return(p, Succeeded(prog))

\* Create, up to the await in upsertPasswordPolicy
create(p, s, req) ==
    /\ Invoke(p, "Create", s, req)
    /\ LET m == fromObject(req.desiredResourceState)
           prog == Progress("IN_PROGRESS", m, Unset)
           u == upsertBegin(s, m)
       IN  /\ model' = [model EXCEPT ![p] = m]
           /\ CASE u.kind = "call" -> Await(p, UPDATE, u.params, prog)
                [] u.kind = "throw" -> Throw(p, u.error, prog)
                [] OTHER ->
                     Return(p, Succeeded([prog EXCEPT !.resourceModel = u.model]))

\* Variant of update with a fault seeded: Update writes without looking for
\* the policy first.
updateUngated(p, s, req) ==
    /\ Invoke(p, "Update", s, req)
    /\ LET m == fromObject(req.desiredResourceState)
           prog == Progress("IN_PROGRESS", m, Unset)
       IN  /\ model' = [model EXCEPT ![p] = m]
           /\ IF m = Undefined
              THEN Throw(p, TypeError("ResourceId"), prog)
              ELSE IF s
                   THEN Await(p, UPDATE, DeleteKey(toObject(m), "ResourceId"), prog)
                   ELSE Return(p, Succeeded(prog))

\* Update, up to the await in retrievePasswordPolicy
\* (reading model.ResourceId of an undefined model throws a TypeError;
\* without a session retrievePasswordPolicy returns null, which is dropped,
\* and upsertPasswordPolicy returns the model)
update(p, s, req) ==
    /\ Invoke(p, "Update", s, req)
    /\ LET m == fromObject(req.desiredResourceState)
           prog == Progress("IN_PROGRESS", m, Unset)
       IN  /\ model' = [model EXCEPT ![p] = m]
           /\ IF m = Undefined
              THEN Throw(p, TypeError("ResourceId"), prog)
              ELSE IF s
                   THEN Await(p, GET, NoParams, prog)
                   ELSE Return(p, Succeeded([prog EXCEPT
                            !.resourceModel = upsertBegin(s, m).model]))

\* Update, from the answer of getAccountPasswordPolicy to the await in
\* upsertPasswordPolicy: the retrieved model is dropped
updateRetrieved(p) ==
    /\ pc[p] = GET /\ op[p] = "Update"
    /\ \E res \in GetAccountPasswordPolicy(remote) :
          LET r == retrievePasswordPolicy(res, model[p]["ResourceId"],
                                          request[p].logicalResourceIdentifier)
          IN  /\ Answer(p, res)
              /\ UNCHANGED model
              /\ IF r.ok
                 THEN Await(p, UPDATE, upsertBegin(session[p], model[p]).params,
                            progress[p])
                 ELSE Throw(p, r.error, progress[p])

\* Variant of upserted with a fault seeded: a write that failed is sent
\* again.
upsertedRetrying(p) ==
    /\ pc[p] = UPDATE /\ op[p] \in {"Create", "Update"}
    /\ \E res \in UpdateAccountPasswordPolicy(remote, pending[p].params),
          uuid \in Uuids :
          LET r == upsertPasswordPolicy(res, model[p], uuid)
          IN  /\ Answer(p, res)
              /\ IF r.ok
                 THEN /\ model' = [model EXCEPT ![p] = r.model]
                      /\ Return(p, Succeeded([progress[p] EXCEPT
                                                 !.resourceModel = r.model]))
                 ELSE /\ UNCHANGED model
                      /\ Await(p, UPDATE, pending[p].params, progress[p])

\* Create and Update, from the answer of updateAccountPasswordPolicy to the
\* return
upserted(p) ==
    /\ pc[p] = UPDATE /\ op[p] \in {"Create", "Update"}
    /\ \E res \in UpdateAccountPasswordPolicy(remote, pending[p].params),
          uuid \in Uuids :
          LET r == upsertPasswordPolicy(res, model[p], uuid)
          IN  /\ Answer(p, res)
              /\ IF r.ok
                 THEN /\ model' = [model EXCEPT ![p] = r.model]
                      /\ Return(p, Succeeded([progress[p] EXCEPT
                                                 !.resourceModel = r.model]))
                 ELSE /\ UNCHANGED model
                      /\ Throw(p, r.error, progress[p])

\* Variant of delete with a fault seeded: a desired state that does not
\* parse is passed over, and Delete goes to its delete-policy call.
deleteUnparsed(p, s, req) ==
    /\ Invoke(p, "Delete", s, req)
    /\ LET m == fromObject(req.desiredResourceState)
           prog == Progress("IN_PROGRESS", m, Unset)
       IN  IF s
           THEN /\ model' = [model EXCEPT ![p] = m]
                /\ IF m = Undefined
                   THEN Await(p, DELETE, NoParams, prog)
                   ELSE Await(p, GET, NoParams, prog)
           ELSE /\ model' = [model EXCEPT ![p] = NullModel]
                /\ Return(p, Succeeded(prog))

\* Delete, up to the await in retrievePasswordPolicy; without a session
\* retrievePasswordPolicy returns null and no call is made
\* (reading model.ResourceId of an undefined model throws a TypeError)
delete(p, s, req) ==
    /\ Invoke(p, "Delete", s, req)
    /\ LET m == fromObject(req.desiredResourceState)
           prog == Progress("IN_PROGRESS", m, Unset)
       IN  IF m = Undefined
           THEN /\ model' = [model EXCEPT ![p] = m]
                /\ Throw(p, TypeError("ResourceId"), prog)
           ELSE IF s
                THEN /\ model' = [model EXCEPT ![p] = m]
                     /\ Await(p, GET, NoParams, prog)
                ELSE /\ model' = [model EXCEPT ![p] = NullModel]
                     /\ Return(p, Succeeded(prog))

\* Variant of deleteRetrieved with a fault seeded: the error of
\* retrievePasswordPolicy is dropped and delete-policy is called anyway.
deleteRetrievedUngated(p) ==
    /\ pc[p] = GET /\ op[p] = "Delete"
    /\ \E res \in GetAccountPasswordPolicy(remote) :
          /\ Answer(p, res)
          /\ UNCHANGED model
          /\ Await(p, DELETE, NoParams, progress[p])

\* Delete, from the answer of getAccountPasswordPolicy to the await of
\* deleteAccountPasswordPolicy
deleteRetrieved(p) ==
    /\ pc[p] = GET /\ op[p] = "Delete"
    /\ \E res \in GetAccountPasswordPolicy(remote) :
          LET r == retrievePasswordPolicy(res, model[p]["ResourceId"],
                                          request[p].logicalResourceIdentifier)
          IN  /\ Answer(p, res)
              /\ IF r.ok
                 THEN /\ model' = [model EXCEPT ![p] = r.model]
                      /\ Await(p, DELETE, NoParams, progress[p])
                 ELSE /\ UNCHANGED model
                      /\ Throw(p, r.error, progress[p])

\* Variant of deleted with a fault seeded: the error of delete-policy is
\* caught and dropped.
deletedSwallowing(p) ==
    /\ pc[p] = DELETE /\ op[p] = "Delete"
    /\ \E res \in DeleteAccountPasswordPolicy(remote) :
          /\ Answer(p, res)
          /\ UNCHANGED model
          /\ Return(p, Succeeded(progress[p]))

\* Delete, from the answer of deleteAccountPasswordPolicy to the return
deleted(p) ==
    /\ pc[p] = DELETE /\ op[p] = "Delete"
    /\ \E res \in DeleteAccountPasswordPolicy(remote) :
          /\ Answer(p, res)
          /\ UNCHANGED model
          /\ IF res.ok
             THEN Return(p, Succeeded(progress[p]))
             ELSE Throw(p, InternalFailure(res.error.message), progress[p])

\* Read, up to the await in retrievePasswordPolicy
read(p, s, req) ==
    /\ Invoke(p, "Read", s, req)
    /\ model' = [model EXCEPT ![p] = NullModel]
    /\ IF s
       THEN Await(p, GET, NoParams, NoProgress)
       ELSE Return(p, Progress("SUCCESS", NullModel, Unset))

\* Variant of readRetrieved with a fault seeded: Read goes on as Delete does,
\* to a deleteAccountPasswordPolicy call.
readRetrievedDeleting(p) ==
    /\ pc[p] = GET /\ op[p] = "Read"
    /\ \E res \in GetAccountPasswordPolicy(remote) :
          LET r == retrievePasswordPolicy(
                       res, request[p].desiredResourceState["ResourceId"],
                       request[p].logicalResourceIdentifier)
          IN  /\ Answer(p, res)
              /\ IF r.ok
                 THEN /\ model' = [model EXCEPT ![p] = r.model]
                      /\ Await(p, DELETE, NoParams, NoProgress)
                 ELSE /\ UNCHANGED model
                      /\ Throw(p, r.error, NoProgress)

\* Read, from the answer of getAccountPasswordPolicy to the return
readRetrieved(p) ==
    /\ pc[p] = GET /\ op[p] = "Read"
    /\ \E res \in GetAccountPasswordPolicy(remote) :
          LET r == retrievePasswordPolicy(
                       res, request[p].desiredResourceState["ResourceId"],
                       request[p].logicalResourceIdentifier)
          IN  /\ Answer(p, res)
              /\ IF r.ok
                 THEN /\ model' = [model EXCEPT ![p] = r.model]
                      /\ Return(p, Progress("SUCCESS", r.model, Unset))
                 ELSE /\ UNCHANGED model
                      /\ Throw(p, r.error, NoProgress)

\* List, up to the await in retrievePasswordPolicy
list(p, s, req) ==
    /\ Invoke(p, "List", s, req)
    /\ model' = [model EXCEPT ![p] = NullModel]
    /\ IF s
       THEN Await(p, GET, NoParams, NoProgress)
       ELSE Return(p, Progress("SUCCESS", Unset, Models(<<NullModel>>)))

\* what List does with the result r of retrievePasswordPolicy: the models
\* it returns, or the error it rethrows
listCatch(r) ==
    IF r.ok THEN [ok |-> TRUE, models |-> <<r.model>>]
    ELSE IF r.error.kind = "NotFound" THEN [ok |-> TRUE, models |-> <<>>]
    ELSE [ok |-> FALSE, error |-> r.error]

\* List, from the answer of getAccountPasswordPolicy to the return
listRetrieved(p) ==
    /\ pc[p] = GET /\ op[p] = "List"
    /\ \E res \in GetAccountPasswordPolicy(remote) :
          LET r == retrievePasswordPolicy(
                       res, request[p].desiredResourceState["ResourceId"],
                       request[p].logicalResourceIdentifier)
              c == listCatch(r)
          IN  /\ Answer(p, res)
              /\ IF r.ok
                 THEN model' = [model EXCEPT ![p] = r.model]
                 ELSE UNCHANGED model
              /\ IF c.ok
                 THEN Return(p, Progress("SUCCESS", Unset, Models(c.models)))
                 ELSE Throw(p, c.error, NoProgress)

\* the host takes what the invocation returned or threw; the slot is free
\* for the next invocation, which builds its model and ProgressEvent anew
collect(p) ==
    /\ pc[p] = "done"
    /\ pc' = [pc EXCEPT ![p] = "idle"]
    /\ op' = [op EXCEPT ![p] = "none"]
    /\ session' = [session EXCEPT ![p] = FALSE]
    /\ request' = [request EXCEPT ![p] = NoRequest]
    /\ model' = [model EXCEPT ![p] = NullModel]
    /\ progress' = [progress EXCEPT ![p] = NoProgress]
    /\ calls' = [calls EXCEPT ![p] = <<>>]
    /\ outcome' = [outcome EXCEPT ![p] = NoOutcome]
    /\ before' = [before EXCEPT ![p] = remote]
    /\ prev' = [prev EXCEPT ![p] = NoPrev]
    /\ UNCHANGED <<remote, pending, gone>>

\* the requests the host may send to slot p, out of reqs: any when the slot
\* is idle, the one it sent when it repeats the invocation, none while the
\* invocation runs
Offered(p, reqs) ==
    CASE pc[p] = "idle" -> reqs
      [] pc[p] = "again" -> {request[p]}
      [] OTHER -> {}

(***************************************************************************)
(* The host of Spec runs one invocation at a time, in slot Host.           *)
(***************************************************************************)
Next ==
    \/ \E s \in BOOLEAN, req \in Offered(Host, Requests) : create(Host, s, req)
    \/ \E s \in BOOLEAN, req \in Offered(Host, Requests) : update(Host, s, req)
    \/ \E s \in BOOLEAN, req \in Offered(Host, Requests) : delete(Host, s, req)
    \/ \E s \in BOOLEAN, req \in Offered(Host, Requests) : read(Host, s, req)
    \/ \E s \in BOOLEAN, req \in Offered(Host, Requests) : list(Host, s, req)
    \/ updateRetrieved(Host)
    \/ upserted(Host)
    \/ deleteRetrieved(Host)
    \/ deleted(Host)
    \/ readRetrieved(Host)
    \/ listRetrieved(Host)
    \/ collect(Host)

Spec == Init /\ [][Next]_vars

(***************************************************************************)
(* A host that may repeat an invocation once it has ended: the same        *)
(* handler, session and request, with no other operation in between.       *)
(***************************************************************************)
\* the kind of outcome: SUCCESS, or the kind of the error thrown
OutcomeKind(o) ==
    IF o.kind = "returned" THEN o.progress.status ELSE o.error.kind

\* a remote call of the invocation failed for a reason that is not the state
\* of the policy
TransportFailure(cs) ==
    \E i \in 1..Len(cs) : ~cs[i].result.ok /\ cs[i].result.error \in TransportErrors

Ended(o, r, cs) ==
    [kind |-> OutcomeKind(o), remote |-> r, transport |-> TransportFailure(cs)]

\* the host repeats the invocation that has ended in slot p
again(p) ==
    /\ pc[p] = "done"
    /\ prev[p] = NoPrev
    /\ pc' = [pc EXCEPT ![p] = "again"]
    /\ prev' = [prev EXCEPT ![p] = Ended(outcome[p], remote, calls[p])]
    /\ UNCHANGED <<remote, op, session, request, model, progress, pending, calls,
                   outcome, before, gone>>

\* the host reads back what a Create or Update with a session has written:
\* a Read with the same session and request
Written == [kind |-> "written"]
readBack(p) ==
    /\ pc[p] = "done"
    /\ prev[p] = NoPrev
    /\ op[p] \in {"Create", "Update"} /\ session[p]
    /\ outcome[p].kind = "returned"
    /\ pc' = [pc EXCEPT ![p] = "again"]
    /\ op' = [op EXCEPT ![p] = "Read"]
    /\ prev' = [prev EXCEPT ![p] = Written]
    /\ UNCHANGED <<remote, session, request, model, progress, pending, calls,
                   outcome, before, gone>>


NextRepeat ==
    \/ Next
    \/ again(Host)
    \/ readBack(Host)

SpecRepeat == Init /\ [][NextRepeat]_vars

(***************************************************************************)
(* Two invocations against the same account: the host runs a handler in    *)
(* each slot, and the steps of the two interleave at their awaits.  The    *)
(* requests drawn are few, so that the interleavings stay enumerable.      *)
(***************************************************************************)
ConcDesiredStates ==
    {EmptyObject,
     [EmptyObject EXCEPT !["ResourceId"] = Str(<<"r", "1">>),
                         !["MinimumPasswordLength"] = Str(<<"8">>)]}

ConcRequests ==
    {[desiredResourceState |-> d, logicalResourceIdentifier |-> l] :
        d \in ConcDesiredStates, l \in LogicalIds}

NextConc ==
    \E p \in Procs :
        \/ \E s \in BOOLEAN, req \in Offered(p, ConcRequests) : create(p, s, req)
        \/ \E s \in BOOLEAN, req \in Offered(p, ConcRequests) : update(p, s, req)
        \/ \E s \in BOOLEAN, req \in Offered(p, ConcRequests) : delete(p, s, req)
        \/ \E s \in BOOLEAN, req \in Offered(p, ConcRequests) : read(p, s, req)
        \/ \E s \in BOOLEAN, req \in Offered(p, ConcRequests) : list(p, s, req)
        \/ updateRetrieved(p)
        \/ upserted(p)
        \/ deleteRetrieved(p)
        \/ deleted(p)
        \/ readRetrieved(p)
        \/ listRetrieved(p)
        \/ collect(p)

SpecConc == Init /\ [][NextConc]_vars

\* the awaited call of p returns or fails, and the handler goes on
Proceed(p) ==
    \/ updateRetrieved(p)
    \/ upserted(p)
    \/ deleteRetrieved(p)
    \/ deleted(p)
    \/ readRetrieved(p)
    \/ listRetrieved(p)

\* the sequential host over the requests of ConcRequests
NextLive ==
    \/ \E s \in BOOLEAN, req \in Offered(Host, ConcRequests) : create(Host, s, req)
    \/ \E s \in BOOLEAN, req \in Offered(Host, ConcRequests) : update(Host, s, req)
    \/ \E s \in BOOLEAN, req \in Offered(Host, ConcRequests) : delete(Host, s, req)
    \/ \E s \in BOOLEAN, req \in Offered(Host, ConcRequests) : read(Host, s, req)
    \/ \E s \in BOOLEAN, req \in Offered(Host, ConcRequests) : list(Host, s, req)
    \/ updateRetrieved(Host)
    \/ upserted(Host)
    \/ deleteRetrieved(Host)
    \/ deleted(Host)
    \/ readRetrieved(Host)
    \/ listRetrieved(Host)
    \/ collect(Host)

\* that host, every remote call returning or failing
SpecLive == Init /\ [][NextLive]_vars /\ WF_vars(Proceed(Host))

(***************************************************************************)
(* Vocabulary of the properties                                            *)
(***************************************************************************)
\* the positions of the completed calls of p to api
CallsTo(p, api) == {i \in 1..Len(calls[p]) : calls[p][i].api = api}
\* the first completed call of p was a read-policy call
ReadFirst(p) == Len(calls[p]) >= 1 /\ calls[p][1].api = GET
ReadOk(p) == ReadFirst(p) /\ calls[p][1].result.ok
\* the read-policy call of p signalled that no policy exists
ReadNoPolicy(p) ==
    /\ ReadFirst(p)
    /\ ~calls[p][1].result.ok
    /\ calls[p][1].result.error.code = "NoSuchEntity"
\* the read-policy call of p failed otherwise
ReadOtherFailure(p) ==
    /\ ReadFirst(p)
    /\ ~calls[p][1].result.ok
    /\ calls[p][1].result.error.code # "NoSuchEntity"
ThrewKind(p, kind) ==
    outcome[p].kind = "thrown" /\ outcome[p].error.kind = kind
ReturnedSuccess(p) ==
    outcome[p].kind = "returned" /\ outcome[p].progress.status = "SUCCESS"
DesiredOf(p) == request[p].desiredResourceState

\* C1: Update with a session calls read-policy first and write-policy only
\* after it; when the read signals that no policy exists, Update throws
\* NotFound, never calls write-policy, and the policy is still absent.
C1_UpdateReadsBeforeWrite ==
    \A p \in Procs :
        (op[p] = "Update" /\ session[p]) =>
            /\ (calls[p] # <<>> => calls[p][1].api = GET)
            /\ \A i \in CallsTo(p, UPDATE) : i > 1 /\ ReadOk(p)
            /\ (pending[p].api = UPDATE => ReadOk(p))
            /\ ReadNoPolicy(p) =>
                  /\ pc[p] = "done"
                  /\ ThrewKind(p, "NotFound")
                  /\ CallsTo(p, UPDATE) = {}
                  /\ pending[p] = NoCall
                  /\ remote = before[p]
                  /\ ~remote.exists

C1_Witness ==
    \E p \in Procs :
        /\ op[p] = "Update" /\ session[p] /\ pc[p] = "done"
        /\ ReadNoPolicy(p)
        /\ ThrewKind(p, "NotFound")

\* C2: Delete with a session calls read-policy first; when the read signals
\* that no policy exists, Delete throws NotFound and never calls
\* delete-policy; when the read returns the policy, delete-policy is called
\* exactly once, after the read, and once it has succeeded the policy is
\* absent.
C2_DeleteReadsThenDeletes ==
    \A p \in Procs :
        (op[p] = "Delete" /\ session[p]) =>
            /\ (calls[p] # <<>> => calls[p][1].api = GET)
            /\ (pending[p].api = DELETE => ReadOk(p) /\ Len(calls[p]) = 1)
            /\ ReadNoPolicy(p) =>
                  /\ pc[p] = "done"
                  /\ ThrewKind(p, "NotFound")
                  /\ CallsTo(p, DELETE) = {}
                  /\ pending[p] = NoCall
            /\ (ReadOk(p) /\ pc[p] = "done") =>
                  /\ CallsTo(p, DELETE) = {2}
                  /\ Len(calls[p]) = 2
                  /\ (calls[p][2].result.ok => remote = NoPolicy)

C2_Witness ==
    \E p \in Procs :
        /\ op[p] = "Delete" /\ session[p] /\ pc[p] = "done"
        /\ before[p].exists
        /\ ReadOk(p)
        /\ CallsTo(p, DELETE) = {2}
        /\ calls[p][2].result.ok
        /\ remote = NoPolicy

\* an error arose in the invocation of p: a remote call failed, or the
\* desired state that Create, Update and Delete parse did not parse
SomeCallFailed(p) == \E i \in 1..Len(calls[p]) : ~calls[p][i].result.ok
ErrorArose(p) ==
    \/ SomeCallFailed(p)
    \/ op[p] \in {"Create", "Update", "Delete"}
          /\ fromObject(DesiredOf(p)) = Undefined

\* C3 as stated: when read-policy signals that no policy exists, List returns
\* Success with an empty list of models and throws nothing; a handler that
\* returns after an error arose is List after exactly that signal.
C3_ListSwallowsOnlyNotFound ==
    \A p \in Procs :
        /\ (op[p] = "List" /\ ReadNoPolicy(p)) =>
              /\ pc[p] = "done"
              /\ ReturnedSuccess(p)
              /\ outcome[p].progress.resourceModels = Models(<<>>)
        /\ (pc[p] = "done" /\ outcome[p].kind = "returned" /\ ErrorArose(p)) =>
              /\ op[p] = "List"
              /\ Len(calls[p]) = 1
              /\ ReadNoPolicy(p)

\* the identifier the NotFound of p carries
NotFoundId(p) == outcome[p].error.identifier
LogicalOf(p) == request[p].logicalResourceIdentifier

\* C4 as stated: when read-policy signals that no policy exists, Read throws
\* NotFound whose identifier is the desired state's ResourceId when that is
\* present and the logical resource identifier otherwise, and returns no
\* Success.
C4_Original ==
    \A p \in Procs :
        (op[p] = "Read" /\ ReadNoPolicy(p)) =>
            /\ pc[p] = "done"
            /\ ThrewKind(p, "NotFound")
            /\ NotFoundId(p) = IF DesiredOf(p)["ResourceId"] # Absent
                               THEN DesiredOf(p)["ResourceId"]
                               ELSE LogicalOf(p)

\* C4 amended: when read-policy signals that no policy exists, Read throws
\* NotFound whose identifier is the desired state's ResourceId when that is
\* present and not the empty string, and the logical resource identifier
\* otherwise; it returns no Success.
C4_ReadNotFoundIdentifier ==
    \A p \in Procs :
        (op[p] = "Read" /\ ReadNoPolicy(p)) =>
            /\ pc[p] = "done"
            /\ ThrewKind(p, "NotFound")
            /\ outcome[p].error.typeName = TYPE_NAME
            /\ NotFoundId(p) = IF /\ DesiredOf(p)["ResourceId"] # Absent
                                  /\ DesiredOf(p)["ResourceId"] # Str(<<>>)
                               THEN DesiredOf(p)["ResourceId"]
                               ELSE LogicalOf(p)

C4_Witness ==
    \E p \in Procs :
        /\ op[p] = "Read" /\ pc[p] = "done"
        /\ ReadNoPolicy(p)
        /\ DesiredOf(p)["ResourceId"] = Str(<<>>)
        /\ ThrewKind(p, "NotFound")
        /\ NotFoundId(p) = LogicalOf(p)

(***************************************************************************)
(* The coercion that the specification of the model layer prescribes for a *)
(* present raw value: a boolean field takes "true" or "false" in any       *)
(* letter case or a native boolean; an integer field takes a base-10       *)
(* numeral or a number, which it keeps (the numbers drawn are integers);   *)
(* every other value cannot be coerced.                                    *)
(***************************************************************************)
Uncoercible == [t |-> "uncoercible"]
IsNumeral(cs) ==
    LET body == IF cs # <<>> /\ cs[1] \in {"-", "+"} THEN Tail(cs) ELSE cs
    IN  body # <<>> /\ \A i \in 1..Len(body) : IsDigit(body[i])
Coerced(f, value) ==
    IF f \in BooleanFields
    THEN CASE value.t = "bool" -> value
           [] value.t = "str" /\ toLowerCase(value.s) = <<"t", "r", "u", "e">> ->
                Bool(TRUE)
           [] value.t = "str" /\ toLowerCase(value.s) = <<"f", "a", "l", "s", "e">> ->
                Bool(FALSE)
           [] OTHER -> Uncoercible
    ELSE CASE value.t = "num" -> value
           [] value.t = "str" /\ IsNumeral(value.s) -> NumberParseInt(value.s)
           [] OTHER -> Uncoercible

\* the policy fields that the desired state d sets, coerced
CoercedPresent(d) ==
    LET keys == {f \in PolicyFields : d[f] # Absent}
    IN  [f \in keys |-> Coerced(f, d[f])]

\* C5 as stated: Create with a session, a desired state without ResourceId
\* and a succeeding write-policy call sends a request that holds exactly the
\* coerced present fields of the desired state, and returns Success with a
\* model that carries a newly generated non-empty ResourceId.
C5_CreateSendsCoercedFields ==
    \A p \in Procs :
        (/\ op[p] = "Create" /\ session[p]
         /\ DesiredOf(p)["ResourceId"] = Absent
         /\ CallsTo(p, UPDATE) # {}
         /\ calls[p][1].result.ok) =>
            /\ calls[p][1].params = CoercedPresent(DesiredOf(p))
            /\ pc[p] = "done"
            /\ ReturnedSuccess(p)
            /\ outcome[p].progress.resourceModel["ResourceId"].t = "str"
            /\ outcome[p].progress.resourceModel["ResourceId"].s \in Uuids

\* C6: no write-policy request, sent or about to be sent, holds a ResourceId
\* key or an ExpirePasswords key.
C6_WriteOmitsLocalFields ==
    \A p \in Procs :
        /\ \A i \in CallsTo(p, UPDATE) :
              {"ResourceId", "ExpirePasswords"} \cap DOMAIN calls[p][i].params = {}
        /\ pending[p].api = UPDATE =>
              {"ResourceId", "ExpirePasswords"} \cap DOMAIN pending[p].params = {}

C6_Witness ==
    \E p \in Procs :
        /\ CallsTo(p, UPDATE) # {}
        /\ DesiredOf(p)["ResourceId"] = Str(<<"r", "1">>)
        /\ DesiredOf(p)["ExpirePasswords"] = Bool(TRUE)
        /\ DesiredOf(p)["RequireSymbols"] # Absent

\* C7 as stated: after a successful Create or Update with desired state D,
\* the policy holds the coerced value of every field present in D and the
\* remote default of every field absent from D, whatever it held before.
C7_WriteReplacesWholePolicy ==
    \A p \in Procs :
        (/\ op[p] \in {"Create", "Update"} /\ session[p]
         /\ pc[p] = "done" /\ ReturnedSuccess(p)) =>
            remote = Policy([f \in PolicyFields |->
                                IF DesiredOf(p)[f] # Absent
                                THEN Coerced(f, DesiredOf(p)[f])
                                ELSE RemoteDefault(f)])

\* C8: when the write-policy call of Create or Update fails, the handler
\* throws InternalFailure with the message of the error, returns no Success
\* and calls write-policy once only.
C8_WriteFailureIsInternalFailure ==
    \A p \in Procs :
        \A i \in CallsTo(p, UPDATE) :
            ~calls[p][i].result.ok =>
                /\ op[p] \in {"Create", "Update"}
                /\ pc[p] = "done"
                /\ outcome[p] = Threw(InternalFailure(calls[p][i].result.error.message))
                /\ CallsTo(p, UPDATE) = {i}
                /\ i = Len(calls[p])
                /\ pending[p] = NoCall

C8_Witness ==
    \E p \in Procs :
        /\ op[p] = "Update" /\ pc[p] = "done"
        /\ Len(calls[p]) = 2
        /\ calls[p][2].api = UPDATE
        /\ calls[p][2].result = Fail(AWSError("NetworkingError", "socket hang up"))
        /\ outcome[p] = Threw(InternalFailure("socket hang up"))

\* C9: when the delete-policy call of Delete raises a transport error,
\* Delete throws InternalFailure with the message of that error and returns
\* no Success.
C9_DeleteFailureIsInternalFailure ==
    \A p \in Procs :
        \A i \in CallsTo(p, DELETE) :
            (~calls[p][i].result.ok /\ calls[p][i].result.error \in TransportErrors) =>
                /\ op[p] = "Delete"
                /\ pc[p] = "done"
                /\ outcome[p] = Threw(InternalFailure(calls[p][i].result.error.message))

C9_Witness ==
    \E p \in Procs :
        /\ op[p] = "Delete" /\ pc[p] = "done"
        /\ Len(calls[p]) = 2
        /\ calls[p][2].api = DELETE
        /\ calls[p][2].result = Fail(AWSError("Throttling", "Rate exceeded"))
        /\ outcome[p] = Threw(InternalFailure("Rate exceeded"))

\* C10: a failure of read-policy other than "no such entity" is thrown as
\* it is by Read, List, Update and Delete, and no further remote call is
\* made in that invocation.
C10_ReadFailurePropagates ==
    \A p \in Procs :
        ReadOtherFailure(p) =>
            /\ op[p] \in {"Read", "List", "Update", "Delete"}
            /\ pc[p] = "done"
            /\ outcome[p] = Threw(calls[p][1].result.error)
            /\ Len(calls[p]) = 1
            /\ pending[p] = NoCall
            /\ remote = before[p]

C10_Witness ==
    \E p \in Procs :
        /\ op[p] = "List" /\ pc[p] = "done"
        /\ ReadOtherFailure(p)
        /\ outcome[p] = Threw(AWSError("Throttling", "Rate exceeded"))

(***************************************************************************)
(* The model layer on its own: class PasswordPolicy applied to an input    *)
(* object.  In slot Host, request holds the input, model the result of     *)
(* fromObject, pending.params the plain object of toObject, and outcome    *)
(* the model that fromObject makes of that plain object.                   *)
(***************************************************************************)
RawBooleans ==
    {Absent, Bool(TRUE), Bool(FALSE),
     Str(<<"t", "r", "u", "e">>), Str(<<"f", "a", "l", "s", "e">>),
     Str(<<"T", "R", "U", "E">>), Str(<<"F", "A", "L", "S", "E">>),
     Str(<<"1">>), Str(<<"0">>), Str(<<"n", "u", "l", "l">>),
     Str(<<"y", "e", "s">>), Str(<<>>)}
RawIntegers ==
    {Absent, Str(<<"8">>), Str(<<"0">>), Str(<<"-", "3">>), Str(<<"1", "2", "0">>),
     Str(<<"a", "b", "c">>), Str(<<>>), Str(<<"1", "2", "a", "b">>),
     Num(8), Num(0), Num(-3)}

ModelInputs ==
    {[EmptyObject EXCEPT !["ResourceId"] = rid,
                         !["MinimumPasswordLength"] = len,
                         !["RequireSymbols"] = sym,
                         !["MaxPasswordAge"] = age,
                         !["HardExpiry"] = hard] :
        rid \in {Absent, Str(<<"r", "1">>)}, len \in RawIntegers,
        sym \in RawBooleans, age \in {Absent, Str(<<"9", "0">>), Num(0)},
        hard \in {Absent, Str(<<"f", "a", "l", "s", "e">>)}}

\* the plain object params read as an input object
AsInput(params) ==
    [f \in AllFields |-> IF f \in DOMAIN params THEN params[f] ELSE Absent]

Parsed(m) == [kind |-> "parsed", model |-> m]

InitModel ==
    /\ remote = NoPolicy
    /\ pc = [p \in Procs |-> "idle"]
    /\ op = [p \in Procs |-> "none"]
    /\ session = [p \in Procs |-> FALSE]
    /\ \E input \in ModelInputs :
          request = [p \in Procs |->
                        IF p = Host
                        THEN [desiredResourceState |-> input,
                              logicalResourceIdentifier |-> Absent]
                        ELSE NoRequest]
    /\ model = [p \in Procs |-> NullModel]
    /\ progress = [p \in Procs |-> NoProgress]
    /\ pending = [p \in Procs |-> NoCall]
    /\ calls = [p \in Procs |-> <<>>]
    /\ outcome = [p \in Procs |-> NoOutcome]
    /\ before = [p \in Procs |-> NoPolicy]
    /\ prev = [p \in Procs |-> NoPrev]
    /\ gone = FALSE

\* PasswordPolicy.fromObject(input)
parse(p) ==
    /\ pc[p] = "idle"
    /\ pc' = [pc EXCEPT ![p] = "parsed"]
    /\ op' = [op EXCEPT ![p] = "fromObject"]
    /\ model' = [model EXCEPT ![p] = fromObject(DesiredOf(p))]
    /\ UNCHANGED <<remote, session, request, progress, pending, calls, outcome,
                   before, prev, gone>>

\* model.toObject(), of a model that fromObject returned
toPlainJson(p) ==
    /\ pc[p] = "parsed"
    /\ model[p] # Undefined
    /\ pc' = [pc EXCEPT ![p] = "plain"]
    /\ op' = [op EXCEPT ![p] = "toObject"]
    /\ pending' = [pending EXCEPT ![p] = Call("toObject", toObject(model[p]))]
    /\ UNCHANGED <<remote, session, request, model, progress, calls, outcome,
                   before, prev, gone>>

\* PasswordPolicy.fromObject(model.toObject())
reparse(p) ==
    /\ pc[p] = "plain"
    /\ pc' = [pc EXCEPT ![p] = "reparsed"]
    /\ op' = [op EXCEPT ![p] = "fromObject"]
    /\ outcome' = [outcome EXCEPT
                      ![p] = Parsed(fromObject(AsInput(pending[p].params)))]
    /\ UNCHANGED <<remote, session, request, model, progress, pending, calls,
                   before, prev, gone>>

NextModel ==
    \/ parse(Host)
    \/ toPlainJson(Host)
    \/ reparse(Host)

SpecModel == InitModel /\ [][NextModel]_vars

\* a completed call of p to one of apis failed, with "no such entity" (nf) or
\* with another error
FailedCalls(p, apis, nf) ==
    {i \in 1..Len(calls[p]) :
        /\ calls[p][i].api \in apis
        /\ ~calls[p][i].result.ok
        /\ (calls[p][i].result.error.code = "NoSuchEntity") = nf}

\* C11 as stated: in every interleaving of two invocations, InternalFailure
\* is thrown only after a write-policy or delete-policy call failed with an
\* error other than "no such entity", and a Delete whose delete-policy call
\* failed because no policy exists throws NotFound.
C11_InternalFailureOnlyForWriteDelete ==
    \A p \in Procs :
        /\ ThrewKind(p, "InternalFailure") =>
              FailedCalls(p, {UPDATE, DELETE}, FALSE) # {}
        /\ (op[p] = "Delete" /\ FailedCalls(p, {DELETE}, TRUE) # {}) =>
              /\ pc[p] = "done"
              /\ ThrewKind(p, "NotFound")

\* the raw boolean inputs that C12 lists, with the value each is to parse to
ListedBooleans ==
    {<<Absent, Absent>>,
     <<Bool(TRUE), Bool(TRUE)>>, <<Bool(FALSE), Bool(FALSE)>>,
     <<Str(<<"t", "r", "u", "e">>), Bool(TRUE)>>,
     <<Str(<<"f", "a", "l", "s", "e">>), Bool(FALSE)>>,
     <<Str(<<"T", "R", "U", "E">>), Bool(TRUE)>>,
     <<Str(<<"F", "A", "L", "S", "E">>), Bool(FALSE)>>}
IsListedBoolean(v) == \E e \in ListedBooleans : e[1] = v
ListedBooleanValue(v) == (CHOOSE e \in ListedBooleans : e[1] = v)[2]

\* C12 as stated: parsing a boolean field maps "true", "false", "TRUE",
\* "FALSE", true, false and absent to true, false, true, false, true, false
\* and absent, and raises an error for every other string, so that no model
\* comes out of the parse.
C12_ParseBoolean ==
    \A p \in Procs :
        pc[p] \in {"parsed", "plain", "reparsed"} =>
            \A f \in BooleanFields :
                LET v == DesiredOf(p)[f]
                IN  IF IsListedBoolean(v)
                    THEN /\ parseBoolean(v) = ListedBooleanValue(v)
                         /\ model[p] # Undefined =>
                               model[p][f] = ListedBooleanValue(v)
                    ELSE v.t = "str" =>
                            /\ parseBoolean(v).t = "throw"
                            /\ model[p] = Undefined

\* the value of a base-10 numeral with an optional sign
NumeralValue(cs) ==
    IF cs[1] = "-" THEN -DigitsValue(Tail(cs))
    ELSE IF cs[1] = "+" THEN DigitsValue(Tail(cs))
    ELSE DigitsValue(cs)

\* the value C13 prescribes for the raw value v of an integer field: the
\* value of a numeral, a number truncated toward zero (the numbers drawn are
\* integers, which truncation keeps), absent for absent
PrescribedInteger(v) ==
    CASE v = Absent -> Absent
      [] v.t = "num" -> Num(v.n)
      [] OTHER -> Num(NumeralValue(v.s))

\* C13 as stated: parsing an integer field maps a numeric string to its
\* base-10 value, a number to that number truncated toward zero (an integer
\* n to n, 0 included), and absent input to an absent field.
C13_ParseInteger ==
    \A p \in Procs :
        pc[p] \in {"parsed", "plain", "reparsed"} =>
            \A f \in IntegerFields :
                LET v == DesiredOf(p)[f]
                IN  (v = Absent \/ v.t = "num" \/ (v.t = "str" /\ IsNumeral(v.s))) =>
                        /\ parseInteger(v) = PrescribedInteger(v)
                        /\ model[p] # Undefined =>
                              model[p][f] = PrescribedInteger(v)

\* C14 as stated: for a model m that fromObject returned, fromObject of
\* m.toObject() is a model with the same value as m in every boolean and
\* integer field that m has set; every integer field set in m is still set,
\* with the same value.
C14_RoundTrip ==
    \A p \in Procs :
        pc[p] = "reparsed" =>
            /\ outcome[p].model # Undefined
            /\ \A f \in PolicyFields :
                  model[p][f] # Absent => outcome[p].model[f] = model[p][f]

\* the desired state of p holds a present policy field that cannot be
\* coerced into its declared type
HasUncoercible(p) ==
    \E f \in PolicyFields :
        DesiredOf(p)[f] # Absent /\ Coerced(f, DesiredOf(p)[f]) = Uncoercible

IntegerParams(params) ==
    \A f \in IntegerFields \cap DOMAIN params : params[f].t = "num"

\* C15 as stated: a handler that parses a desired state holding a present
\* value that cannot be coerced into its declared type (an integer field
\* "abc" or "", for one) throws ParseError and makes no remote call, and no
\* write-policy request holds a non-integer value for an integer field.
C15_UncoercibleRaisesParseError ==
    \A p \in Procs :
        /\ (op[p] \in {"Create", "Update", "Delete"} /\ HasUncoercible(p)) =>
              /\ pc[p] = "done"
              /\ ThrewKind(p, "ParseError")
              /\ calls[p] = <<>>
        /\ \A i \in CallsTo(p, UPDATE) : IntegerParams(calls[p][i].params)
        /\ pending[p].api = UPDATE => IntegerParams(pending[p].params)

\* C16 as stated: a Delete that returns Success returns a ProgressEvent whose
\* resourceModel is unset.
C16_DeleteReturnsNoModel ==
    \A p \in Procs :
        (op[p] = "Delete" /\ pc[p] = "done" /\ ReturnedSuccess(p)) =>
            outcome[p].progress.resourceModel = Unset

\* C17: an invocation that has ended has returned a ProgressEvent with
\* status SUCCESS or has thrown an error, one of the two; no ProgressEvent
\* returned has another status; an invocation that has not ended is awaiting
\* a remote call whose answer lets it go on.
C17_SuccessOrThrow ==
    \A p \in Procs :
        /\ pc[p] = "done" =>
              \/ outcome[p].kind = "returned"
                    /\ outcome[p].progress.status = "SUCCESS"
              \/ outcome[p].kind = "thrown"
        /\ outcome[p].kind = "returned" =>
              /\ pc[p] = "done"
              /\ outcome[p].progress.status \notin {"IN_PROGRESS", "FAILED"}
        /\ outcome[p].kind = "thrown" => pc[p] = "done"
        /\ pc[p] \notin {"idle", "done"} =>
              /\ outcome[p] = NoOutcome
              /\ pending[p].api = pc[p]
              /\ pc[p] \in {GET, UPDATE, DELETE}

C17_Witness ==
    \E p \in Procs :
        /\ op[p] = "Update" /\ session[p] /\ pc[p] = "done"
        /\ Len(calls[p]) = 2
        /\ ReturnedSuccess(p)
        /\ progress[p].status = "SUCCESS"

Handlers == {"Create", "Update", "Delete", "Read", "List"}
\* the desired state of p parses
Parses(p) == fromObject(DesiredOf(p)) # Undefined
\* the ProgressEvent that p returned carries a model whose ResourceId is not
\* the one of the desired state
IdGenerated(p) ==
    /\ outcome[p].kind = "returned"
    /\ "ResourceId" \in DOMAIN outcome[p].progress.resourceModel
    /\ outcome[p].progress.resourceModel["ResourceId"] # DesiredOf(p)["ResourceId"]
\* what every handler does without a session: no remote call, made or
\* awaited, the policy left as it was, no ResourceId generated
NoRemoteEffect(p) ==
    /\ pc[p] = "done"
    /\ calls[p] = <<>>
    /\ pending[p] = NoCall
    /\ remote = before[p]
    /\ ~IdGenerated(p)

\* C18 as stated: without a session no handler makes a remote call, the
\* policy is unchanged, no ResourceId is generated, and Create, Update,
\* Delete, Read and List each return Success.
C18_Original ==
    \A p \in Procs :
        (op[p] \in Handlers /\ ~session[p]) =>
            /\ NoRemoteEffect(p)
            /\ ReturnedSuccess(p)

\* C18 amended: without a session no handler makes a remote call, the policy
\* is unchanged and no ResourceId is generated; Read and List return
\* Success, Create, Update and Delete return Success when the desired state
\* parses, and Update and Delete throw when it does not.
C18_NoSessionNoRemoteCall ==
    \A p \in Procs :
        (op[p] \in Handlers /\ ~session[p]) =>
            /\ NoRemoteEffect(p)
            /\ op[p] \in {"Read", "List"} => ReturnedSuccess(p)
            /\ Parses(p) => ReturnedSuccess(p)
            /\ (op[p] \in {"Update", "Delete"} /\ ~Parses(p)) =>
                  outcome[p].kind = "thrown"

C18_Witness ==
    \E p \in Procs :
        /\ op[p] = "Update" /\ ~session[p] /\ pc[p] = "done"
        /\ before[p].exists
        /\ remote = before[p]
        /\ DesiredOf(p)["ResourceId"] = Absent
        /\ DesiredOf(p)["MinimumPasswordLength"] = Str(<<"8">>)
        /\ ReturnedSuccess(p)
        /\ outcome[p].progress.resourceModel["ResourceId"] = Absent

\* a model that retrievePasswordPolicy made of a read-policy response
IsPolicyModel(m) == DOMAIN m = AllFields

\* C19 as stated: with or without a session, the resourceModels of a List
\* that returned Success is empty or holds exactly one element, a model made
\* of the read-policy response of that invocation, never null.
C19_ListModels ==
    \A p \in Procs :
        (op[p] = "List" /\ pc[p] = "done" /\ ReturnedSuccess(p)) =>
            LET models == outcome[p].progress.resourceModels.list
            IN  \/ models = <<>>
                \/ /\ Len(models) = 1
                   /\ models[1] # NullModel
                   /\ IsPolicyModel(models[1])
                   /\ ReadOk(p)

\* the ResourceId of the parsed desired state of p
DesiredId(p) == fromObject(DesiredOf(p))["ResourceId"]
\* the write-policy call of p succeeded
WriteOk(p) == \E i \in CallsTo(p, UPDATE) : calls[p][i].result.ok
\* the model of p holds a ResourceId that upsert generated
NewId(p) ==
    /\ model[p]["ResourceId"] # DesiredId(p)
    /\ model[p]["ResourceId"].t = "str"
    /\ model[p]["ResourceId"].s \in Uuids

\* C20 as stated: in Create and Update the model gets a new ResourceId if and
\* only if the desired state had none and the write-policy call succeeded; a
\* ResourceId present in the desired state is returned unchanged, and a
\* failed write assigns none.
C20_Original ==
    \A p \in Procs :
        (op[p] \in {"Create", "Update"} /\ Parses(p)) =>
            /\ NewId(p) <=> (DesiredId(p) = Absent /\ WriteOk(p))
            /\ ~NewId(p) => model[p]["ResourceId"] = DesiredId(p)
            /\ outcome[p].kind = "returned" =>
                  outcome[p].progress.resourceModel = model[p]

\* C20 amended: in Create and Update the model gets a new ResourceId if and
\* only if the desired state had none, or an empty one, and the write-policy
\* call succeeded; a non-empty ResourceId of the desired state is returned
\* unchanged, and a failed write assigns none.
C20_ResourceIdGeneratedOnce ==
    \A p \in Procs :
        (op[p] \in {"Create", "Update"} /\ Parses(p)) =>
            /\ NewId(p) <=>
                  (DesiredId(p) \in {Absent, Str(<<>>)} /\ WriteOk(p))
            /\ ~NewId(p) => model[p]["ResourceId"] = DesiredId(p)
            /\ outcome[p].kind = "returned" =>
                  outcome[p].progress.resourceModel = model[p]

C20_Witness ==
    \E p \in Procs :
        /\ op[p] = "Create" /\ session[p] /\ pc[p] = "done"
        /\ DesiredOf(p)["ResourceId"] = Str(<<>>)
        /\ WriteOk(p)
        /\ ReturnedSuccess(p)
        /\ outcome[p].progress.resourceModel["ResourceId"].s \in Uuids

\* the identifier a retrieved model is stamped with: the ResourceId of the
\* request when present and not empty, the logical identifier otherwise
StampOf(p) ==
    IF DesiredOf(p)["ResourceId"] \notin {Absent, Str(<<>>)}
    THEN DesiredOf(p)["ResourceId"]
    ELSE LogicalOf(p)

\* C21: after a successful read-policy call, Read returns Success with a
\* model, and List with a single model, whose ResourceId is the requested
\* ResourceId when that is present and not empty and the logical resource
\* identifier otherwise, whatever the response holds.
C21_RetrievedModelIsStamped ==
    \A p \in Procs :
        /\ (op[p] = "Read" /\ ReadOk(p)) =>
              /\ pc[p] = "done"
              /\ ReturnedSuccess(p)
              /\ outcome[p].progress.resourceModel["ResourceId"] = StampOf(p)
        /\ (op[p] = "List" /\ ReadOk(p)) =>
              /\ pc[p] = "done"
              /\ ReturnedSuccess(p)
              /\ Len(outcome[p].progress.resourceModels.list) = 1
              /\ outcome[p].progress.resourceModels.list[1]["ResourceId"] = StampOf(p)

C21_Witness ==
    \E p \in Procs :
        /\ op[p] = "Read" /\ pc[p] = "done" /\ ReadOk(p)
        /\ DesiredOf(p)["ResourceId"] = Str(<<>>)
        /\ calls[p][1].result.response["ResourceId"] = Absent
        /\ outcome[p].progress.resourceModel["ResourceId"] = LogicalOf(p)
        /\ LogicalOf(p) = Str(<<"L", "1">>)

\* the invocation in slot p is the repetition of one that ended, it has
\* ended too, and in neither run a remote call failed for a reason other
\* than the state of the policy
Repeated(p) ==
    /\ prev[p] \notin {NoPrev, Written}
    /\ pc[p] = "done"
    /\ ~prev[p].transport
    /\ ~TransportFailure(calls[p])

\* C22 as stated: an invocation of Create, Update, Delete, Read or List that
\* is repeated with the same session and request, nothing in between, leaves
\* the policy as the first invocation left it and ends with the same kind of
\* outcome (remote calls failing only for the state of the policy).
C22_Original ==
    \A p \in Procs :
        Repeated(p) =>
            /\ remote = prev[p].remote
            /\ OutcomeKind(outcome[p]) = prev[p].kind

\* C22 amended: a repeated invocation leaves the policy as the first
\* invocation left it; it ends with the same kind of outcome, except a
\* Delete with a session that succeeded the first time, which throws
\* NotFound the second time.
C22_RepeatedInvocation ==
    \A p \in Procs :
        Repeated(p) =>
            /\ remote = prev[p].remote
            /\ OutcomeKind(outcome[p]) =
                  IF op[p] = "Delete" /\ session[p] /\ prev[p].kind = "SUCCESS"
                  THEN "NotFound"
                  ELSE prev[p].kind

C22_Witness ==
    \E p \in Procs :
        /\ Repeated(p)
        /\ op[p] = "Delete" /\ session[p]
        /\ prev[p].kind = "SUCCESS"
        /\ prev[p].remote = NoPolicy
        /\ ThrewKind(p, "NotFound")
        /\ remote = NoPolicy

\* C23: Create makes no read-policy and no delete-policy call and one
\* write-policy call at most, which it makes whenever it has a session and a
\* desired state that parses; it never throws NotFound; when the write
\* succeeds Create returns Success, whether a policy existed or not, and the
\* policy is the one the request sets, whatever it was.
C23_CreateWritesOnly ==
    \A p \in Procs :
        op[p] = "Create" =>
            /\ CallsTo(p, GET) = {} /\ CallsTo(p, DELETE) = {}
            /\ pending[p].api \in {"none", UPDATE}
            /\ Len(calls[p]) <= 1
            /\ ~ThrewKind(p, "NotFound")
            /\ (session[p] /\ Parses(p)) =>
                  \/ pending[p].api = UPDATE /\ calls[p] = <<>>
                  \/ pc[p] = "done" /\ CallsTo(p, UPDATE) = {1}
            /\ WriteOk(p) =>
                  /\ pc[p] = "done"
                  /\ ReturnedSuccess(p)
                  /\ calls[p][1].params = UpsertParams(fromObject(DesiredOf(p)))
                  /\ remote = Replaced(calls[p][1].params)

C23_Witness ==
    \E p \in Procs :
        /\ op[p] = "Create" /\ session[p] /\ pc[p] = "done"
        /\ before[p].exists
        /\ before[p].fields["MinimumPasswordLength"] = Num(8)
        /\ DesiredOf(p)["MinimumPasswordLength"] = Absent
        /\ DesiredOf(p)["RequireSymbols"] = Bool(TRUE)
        /\ ReturnedSuccess(p)
        /\ remote.fields["MinimumPasswordLength"] = Num(6)
        /\ remote.fields["RequireSymbols"] = Bool(TRUE)

\* the Read in slot p followed a successful Create or Update with the same
\* session and request, and its read-policy call has answered
ReadBack(p) ==
    /\ prev[p] = Written
    /\ op[p] = "Read"
    /\ pc[p] # "again"
    /\ ReadFirst(p)
    /\ ~TransportFailure(calls[p])

\* C24 as stated: a Read that follows a successful Create or Update with
\* desired state D returns Success with a model that holds the coerced value
\* of every policy field present in D, the ExpirePasswords that read-policy
\* reported, and every policy field that read-policy reported.
C24_ReadAfterWrite ==
    \A p \in Procs :
        ReadBack(p) =>
            /\ pc[p] = "done"
            /\ ReturnedSuccess(p)
            /\ LET m == outcome[p].progress.resourceModel
                   response == calls[p][1].result.response
               IN  /\ \A f \in PolicyFields :
                         DesiredOf(p)[f] # Absent => m[f] = Coerced(f, DesiredOf(p)[f])
                   /\ m["ExpirePasswords"] = response["ExpirePasswords"]
                   /\ \A f \in PolicyFields : m[f] = response[f]

\* the invocation in slot p has a session, began when no policy existed, and
\* its read-policy call has answered, not failing for a transport reason
ReadWhileGone(p) ==
    /\ gone
    /\ session[p]
    /\ ~before[p].exists
    /\ ReadFirst(p)
    /\ ~TransportFailure(calls[p])

\* C25: in a sequential history, after a Delete with a session returned
\* Success and until a Create with a session returns Success, no policy
\* exists; an invocation whose read-policy call then answers finds no
\* policy: a Read throws NotFound, a List returns Success with an empty
\* list, an Update and a Delete throw NotFound, and none of them makes
\* another call or changes the policy.
C25_AfterDelete ==
    /\ gone => remote = NoPolicy
    /\ \A p \in Procs :
          ReadWhileGone(p) =>
              /\ pc[p] = "done"
              /\ ReadNoPolicy(p)
              /\ Len(calls[p]) = 1
              /\ remote = before[p]
              /\ op[p] \in {"Read", "Update", "Delete"} => ThrewKind(p, "NotFound")
              /\ op[p] = "List" =>
                    /\ ReturnedSuccess(p)
                    /\ outcome[p].progress.resourceModels = Models(<<>>)

C25_Witness ==
    /\ gone
    /\ \E p \in Procs :
          /\ op[p] = "Update" /\ pc[p] = "done"
          /\ ReadWhileGone(p)
          /\ DesiredOf(p)["MinimumPasswordLength"] = Str(<<"8">>)
          /\ ThrewKind(p, "NotFound")
          /\ remote = NoPolicy

\* C26: Read and List never change the policy: an invocation of either,
\* whether it returns or throws, makes at most one call, a read-policy call,
\* awaits no write-policy or delete-policy call, and leaves the policy as it
\* was when the invocation began.
C26_ReadAndListChangeNothing ==
    \A p \in Procs :
        op[p] \in {"Read", "List"} =>
            /\ Len(calls[p]) <= 1
            /\ \A i \in 1..Len(calls[p]) : calls[p][i].api = GET
            /\ pending[p].api \in {NoCall.api, GET}
            /\ pending[p].api = GET => calls[p] = <<>>
            /\ remote = before[p]

C26_Witness ==
    \E p \in Procs :
        /\ op[p] = "Read" /\ pc[p] = "done"
        /\ ReadOtherFailure(p)
        /\ outcome[p].kind = "thrown"
        /\ remote.exists /\ remote = before[p]

\* C27: Create, Update and Delete parse the desired state before any remote
\* call: when the parse fails on an error, the invocation has ended with a
\* throw or a return, it made and awaits no call, and the policy is as it
\* was.
C27_ParsedBeforeAnyCall ==
    \A p \in Procs :
        op[p] \in {"Create", "Update", "Delete"} /\ ~Parses(p) =>
            /\ pc[p] = "done"
            /\ calls[p] = <<>>
            /\ pending[p] = NoCall
            /\ remote = before[p]

C27_Witness ==
    \E p \in Procs :
        /\ op[p] = "Delete" /\ session[p] /\ pc[p] = "done"
        /\ ~Parses(p)
        /\ remote.exists
        /\ outcome[p].kind = "thrown"
        /\ calls[p] = <<>>

\* the remote calls a handler may make, in the order it makes them
CallsOf(o) ==
    CASE o = "Create" -> <<UPDATE>>
      [] o = "Update" -> <<GET, UPDATE>>
      [] o = "Delete" -> <<GET, DELETE>>
      [] o \in {"Read", "List"} -> <<GET>>
      [] OTHER -> <<>>
\* the calls the invocation in slot p has made, the awaited one last
Issued(p) ==
    [i \in 1..Len(calls[p]) |-> calls[p][i].api]
        \o (IF pending[p] = NoCall THEN <<>> ELSE <<pending[p].api>>)
Awaiting == {GET, UPDATE, DELETE}
BoundedCalls(p) ==
    /\ Len(Issued(p)) <= Len(CallsOf(op[p]))
    /\ \A i \in 1..Len(Issued(p)) : Issued(p)[i] = CallsOf(op[p])[i]
    /\ \A i \in 1..Len(calls[p]) : ~calls[p][i].result.ok => Len(Issued(p)) = i
    /\ pending[p] # NoCall <=> pc[p] \in Awaiting
    /\ pc[p] \in Awaiting => pc[p] = pending[p].api

\* C28: every invocation ends, each remote call returning or failing, after
\* at most: one write-policy call in Create; one read-policy call, then one
\* write-policy call, in Update; one read-policy call, then one
\* delete-policy call, in Delete; one read-policy call in Read and in List.
\* A call that failed is the last one, and a call is made only when the one
\* before it has answered.
C28_Terminates ==
    /\ [](\A p \in Procs : BoundedCalls(p))
    /\ \A p \in Procs : (pc[p] \in Awaiting) ~> (pc[p] = "done")

C28_Witness ==
    \E p \in Procs :
        /\ op[p] = "Update" /\ pc[p] = "done"
        /\ Issued(p) = <<GET, UPDATE>>
        /\ ~calls[p][2].result.ok
        /\ outcome[p].kind = "thrown"

\* C29: with two invocations running against the same account, an Update
\* makes no write-policy call that finds the policy absent: it never
\* re-creates a policy that a Delete removed between the Update's
\* read-policy call and its write-policy call.
C29_UpdateGateUnderInterleaving ==
    \A p \in Procs :
        op[p] = "Update" =>
            \A i \in CallsTo(p, UPDATE) : calls[p][i].before.exists

=============================================================================
